---------------------------- MODULE Spec2Model ----------------------------
(***************************************************************************)
(* Model of src/src/pages/Index.tsx: the Index component's session state   *)
(* (excelData, fileName, isDragging, command, commandHistory,              *)
(* isProcessing), the FileReader callbacks and setTimeout callbacks that   *)
(* are in flight, and the toast() calls of the most recent handler.        *)
(*                                                                         *)
(* Every event handler is one action: React applies the state updates of   *)
(* one handler in a single batch and re-renders before the next discrete   *)
(* event is dispatched, so a handler always sees the state (and the        *)
(* closures) of the latest render.  Strings whose characters matter        *)
(* (file names, command text) are sequences of one-character strings.      *)
(***************************************************************************)
EXTENDS Integers, Sequences, FiniteSets, TLC

VARIABLES
    excelData,       \* useState<ExcelData | null>            (line 42)
    fileName,        \* useState<string>('')                  (line 43)
    isDragging,      \* useState(false)                       (line 44)
    command,         \* useState('')                          (line 45)
    commandHistory,  \* useState<CommandHistory[]>([])        (line 46)
    isProcessing,    \* useState(false)                       (line 47)
    readers,         \* FileReaders whose onload has not run  (lines 61, 91)
    timers,          \* setTimeout callbacks not yet run, FIFO (line 126)
    toasts,          \* toast() calls made by the last handler (line 48)
    now              \* the millisecond clock read by Date.now()

vars == <<excelData, fileName, isDragging, command, commandHistory,
          isProcessing, readers, timers, toasts, now>>

session == <<excelData, fileName, command, commandHistory, isProcessing>>

---------------------------------------------------------------------------
(* Bounds of the model *)

MaxReaders == 2      \* file reads in flight at once
MaxDrop == 2         \* files in one drop
TickMs == 1000       \* granularity of the modelled clock
MaxClock == 2500     \* the clock stops here

(* Program constants *)

TimeoutMs == 1000    \* setTimeout(..., 1000)

---------------------------------------------------------------------------
(* Cell values of a decoded sheet: number, string or absent *)

Num(n) == [t |-> "number", n |-> n, s |-> ""]
Txt(s) == [t |-> "string", n |-> 0, s |-> s]
Undefined == [t |-> "undefined", n |-> 0, s |-> ""]

(* excelData: null, or { headers, rows } *)

Null == [isNull |-> TRUE, headers |-> <<>>, rows |-> <<>>]
ExcelData(h, r) == [isNull |-> FALSE, headers |-> h, rows |-> r]

(* A File: its name, and what XLSX.read / sheet_to_json make of its bytes: *)
(* an exception, or the rows of the first sheet (header: 1).               *)

File(nm, th, js) == [name |-> nm, throws |-> th, jsonData |-> js]

FileA == File(<<"a", ".", "x", "l", "s", "x">>, FALSE,
              << <<Txt("Name"), Txt("Sales")>>,
                 <<Txt("Alice"), Num(10)>>,
                 <<Txt("Bob"), Txt("n/a")>> >>)

\* ragged sheet: one row shorter and one row longer than the header row
FileB == File(<<"b", ".", "x", "l", "s">>, FALSE,
              << <<Txt("name"), Txt("Q1")>>,
                 <<Num(5)>>,
                 <<Txt("x"), Num(1), Num(2)>> >>)

\* a sheet without cells decodes to the empty array
FileE == File(<<"e", ".", "x", "l", "s", "x">>, FALSE, <<>>)

\* corrupt bytes: XLSX.read throws
FileC == File(<<"c", ".", "x", "l", "s", "x">>, TRUE, <<>>)

\* not a spreadsheet name; its bytes are read as one line of text
FileP == File(<<"r", ".", "p", "d", "f">>, FALSE, << <<Txt("%PDF")>> >>)

Files == {FileA, FileB, FileE, FileC, FileP}

RECURSIVE SeqsUpTo(_, _)
SeqsUpTo(S, n) ==
    IF n = 0 THEN {<<>>}
    ELSE LET shorter == SeqsUpTo(S, n - 1)
         IN  shorter \cup {Append(q, x) : q \in shorter, x \in S}

\* e.dataTransfer.files of a drop
DropLists == SeqsUpTo(Files, MaxDrop)

\* e.target.files of the picker (the input has no `multiple`)
PickLists == SeqsUpTo(Files, 1)

\* e.target.value of the command input
CommandTexts == {<<>>, <<" ">>, <<"a">>, <<" ", "b", " ">>}

---------------------------------------------------------------------------
(* Pure helpers *)

RemoveAt(q, i) == SubSeq(q, 1, i - 1) \o SubSeq(q, i + 1, Len(q))

\* String.prototype.endsWith
EndsWith(str, suffix) ==
    /\ Len(str) >= Len(suffix)
    /\ SubSeq(str, Len(str) - Len(suffix) + 1, Len(str)) = suffix

\* f.name.endsWith('.xlsx') || f.name.endsWith('.xls')
IsExcelName(nm) ==
    \/ EndsWith(nm, <<".", "x", "l", "s", "x">>)
    \/ EndsWith(nm, <<".", "x", "l", "s">>)

\* variant of FindExcelFile: the first dropped file is taken unfiltered
RECURSIVE FirstFile(_)
FirstFile(files) == IF files = <<>> THEN <<>> ELSE <<Head(files)>>

\* Array.prototype.find with the extension predicate: <<>> for undefined,
\* else the one-element sequence holding the first match
RECURSIVE FindExcelFile(_)
FindExcelFile(files) ==
    IF files = <<>> THEN <<>>
    ELSE IF IsExcelName(Head(files).name) THEN <<Head(files)>>
    ELSE FindExcelFile(Tail(files))

WhiteSpace == {" ", "\t", "\n"}

RECURSIVE TrimStart(_)
TrimStart(str) ==
    IF str # <<>> /\ Head(str) \in WhiteSpace THEN TrimStart(Tail(str))
    ELSE str

RECURSIVE TrimEnd(_)
TrimEnd(str) ==
    IF str # <<>> /\ str[Len(str)] \in WhiteSpace
    THEN TrimEnd(SubSeq(str, 1, Len(str) - 1))
    ELSE str

\* String.prototype.trim
Trim(str) == TrimEnd(TrimStart(str))


\* String(value) as Array.prototype.join applies it to an element
CellToString(cell) ==
    IF cell.t = "number" THEN ToString(cell.n)
    ELSE IF cell.t = "string" THEN cell.s
    ELSE ""

\* variant of Join: the separator has no blank
RECURSIVE JoinComma(_)
JoinComma(cells) ==
    IF cells = <<>> THEN ""
    ELSE IF Len(cells) = 1 THEN CellToString(cells[1])
    ELSE CellToString(cells[1]) \o "," \o JoinComma(Tail(cells))

\* Array.prototype.join(', ')
RECURSIVE Join(_)
Join(cells) ==
    IF cells = <<>> THEN ""
    ELSE IF Len(cells) = 1 THEN CellToString(cells[1])
    ELSE CellToString(cells[1]) \o ", " \o Join(Tail(cells))

\* the characters of a string, as one string
RECURSIVE Text(_)
Text(str) == IF str = <<>> THEN "" ELSE Head(str) \o Text(Tail(str))

\* the result template literal, as its literal and interpolated segments
\* (the Russian literals are written in Latin letters)
ResultText(cmd, data) ==
    << "Analiziruyu komandu: \"", Text(cmd),
       "\"\n\nNaydeno ", ToString(Len(data.rows)),
       " strok dannykh.\nKolonki: ", Join(data.headers),
       "\n\nDlya polnoy integraatsii s AI podklyuchite DeepSeek API." >>

\* newEntry, built by the timer callback from the values it closed over
NewEntry(cmd, data, clock) ==
    [id |-> ToString(clock),
     command |-> Trim(cmd),
     result |-> ResultText(cmd, data),
     timestamp |-> clock]

\* variant of Prepend: the entry is pushed at the end of the log
PrependAtEnd(entry, prev) == prev \o <<entry>>

\* variant of Prepend: the spread of prev is forgotten
PrependOnly(entry, prev) == <<entry>>

\* prev => [newEntry, ...prev]
Prepend(entry, prev) == <<entry>> \o prev

---------------------------------------------------------------------------
(* Toasts *)

ToastLoaded(nm) == [title |-> "loaded", variant |-> "default", file |-> nm]
ToastDecodeError == [title |-> "error", variant |-> "destructive", file |-> <<>>]
ToastNotExcel == [title |-> "not-excel", variant |-> "destructive", file |-> <<>>]
ToastCommandDone == [title |-> "command-done", variant |-> "default", file |-> <<>>]

---------------------------------------------------------------------------
Init ==
    /\ excelData = Null
    /\ fileName = <<>>
    /\ isDragging = FALSE
    /\ command = <<>>
    /\ commandHistory = <<>>
    /\ isProcessing = FALSE
    /\ readers = <<>>
    /\ timers = <<>>
    /\ toasts = <<>>
    /\ now = 0

\* the drop zone and the file input are rendered only while !excelData
DropZoneRendered == excelData.isNull

\* the command input and the send button are rendered only with excelData
CommandCardRendered == ~excelData.isNull

DragOver ==
    /\ DropZoneRendered
    /\ isDragging' = TRUE
    /\ toasts' = <<>>
    /\ UNCHANGED <<session, readers, timers, now>>

DragLeave ==
    /\ DropZoneRendered
    /\ isDragging' = FALSE
    /\ toasts' = <<>>
    /\ UNCHANGED <<session, readers, timers, now>>

\* processExcelFile: a FileReader is created and started
processExcelFile(file) == readers' = Append(readers, file)

Drop(files) ==
    /\ DropZoneRendered
    /\ isDragging' = FALSE
    /\ LET excelFile == FindExcelFile(files)
       IN  IF excelFile # <<>>
           THEN /\ Len(readers) < MaxReaders
                /\ processExcelFile(excelFile[1])
                /\ toasts' = <<>>
           ELSE /\ toasts' = <<ToastNotExcel>>
                /\ UNCHANGED readers
    /\ UNCHANGED <<session, timers, now>>

FileSelect(files) ==
    /\ DropZoneRendered
    /\ IF files # <<>>
       THEN /\ Len(readers) < MaxReaders
            /\ processExcelFile(files[1])
       ELSE UNCHANGED readers
    /\ toasts' = <<>>
    /\ UNCHANGED <<session, isDragging, timers, now>>

\* variant of ReaderOnload: setFileName is called before the length check
ReaderOnloadNamesFirst(i) ==
    /\ i \in 1..Len(readers)
    /\ LET file == readers[i]
           jsonData == file.jsonData
       IN  IF file.throws
           THEN /\ toasts' = <<ToastDecodeError>>
                /\ UNCHANGED <<excelData, fileName>>
           ELSE IF Len(jsonData) > 0
           THEN /\ excelData' = ExcelData(jsonData[1], Tail(jsonData))
                /\ fileName' = file.name
                /\ toasts' = <<ToastLoaded(file.name)>>
           ELSE /\ toasts' = <<>>
                /\ fileName' = file.name
                /\ UNCHANGED excelData
    /\ readers' = RemoveAt(readers, i)
    /\ UNCHANGED <<isDragging, command, commandHistory, isProcessing,
                   timers, now>>

\* reader.onload of the i-th pending reader
ReaderOnload(i) ==
    /\ i \in 1..Len(readers)
    /\ LET file == readers[i]
           jsonData == file.jsonData
       IN  IF file.throws
           THEN /\ toasts' = <<ToastDecodeError>>
                /\ UNCHANGED <<excelData, fileName>>
           ELSE IF Len(jsonData) > 0
           THEN /\ excelData' = ExcelData(jsonData[1], Tail(jsonData))
                /\ fileName' = file.name
                /\ toasts' = <<ToastLoaded(file.name)>>
           ELSE /\ toasts' = <<>>
                /\ UNCHANGED <<excelData, fileName>>
    /\ readers' = RemoveAt(readers, i)
    /\ UNCHANGED <<isDragging, command, commandHistory, isProcessing,
                   timers, now>>


\* variant of executeCommand: the callback is scheduled without a delay
executeCommandNoDelay ==
    IF Trim(command) = <<>> \/ excelData.isNull
    THEN UNCHANGED <<isProcessing, timers>>
    ELSE /\ now + TimeoutMs <= MaxClock
         /\ isProcessing' = TRUE
         /\ timers' = Append(timers, [command |-> command,
                                      excelData |-> excelData,
                                      due |-> now])

\* variant of InputDisabled: the input is never disabled
InputNeverDisabled == FALSE

\* disabled={isProcessing} of the command input
InputDisabled == isProcessing

\* disabled={isProcessing || !command.trim()} of the send button
ButtonDisabled == isProcessing \/ Trim(command) = <<>>

\* onChange of the command input
SetCommand(value) ==
    /\ CommandCardRendered
    /\ ~InputDisabled
    /\ command' = value
    /\ toasts' = <<>>
    /\ UNCHANGED <<excelData, fileName, commandHistory, isProcessing,
                   isDragging, readers, timers, now>>

\* executeCommand, with the command and excelData of the current render
executeCommand ==
    IF Trim(command) = <<>> \/ excelData.isNull
    THEN UNCHANGED <<isProcessing, timers>>
    ELSE /\ now + TimeoutMs <= MaxClock
         /\ isProcessing' = TRUE
         /\ timers' = Append(timers, [command |-> command,
                                      excelData |-> excelData,
                                      due |-> now + TimeoutMs])

\* onKeyDown of the command input with e.key === 'Enter'
KeyDownEnter ==
    /\ CommandCardRendered
    /\ ~InputDisabled
    /\ executeCommand
    /\ toasts' = <<>>
    /\ UNCHANGED <<excelData, fileName, command, commandHistory,
                   isDragging, readers, now>>

\* onClick of the send button
ClickSend ==
    /\ CommandCardRendered
    /\ ~ButtonDisabled
    /\ executeCommand
    /\ toasts' = <<>>
    /\ UNCHANGED <<excelData, fileName, command, commandHistory,
                   isDragging, readers, now>>

\* variant of TimerFires: the pending command text is not cleared
TimerFiresKeepsCommand ==
    /\ timers # <<>>
    /\ Head(timers).due <= now
    /\ LET t == Head(timers)
           newEntry == NewEntry(t.command, t.excelData, now)
       IN  commandHistory' = Prepend(newEntry, commandHistory)
    /\ isProcessing' = FALSE
    /\ toasts' = <<ToastCommandDone>>
    /\ timers' = Tail(timers)
    /\ UNCHANGED <<excelData, fileName, command, isDragging, readers, now>>

\* the setTimeout callback of the oldest pending timer, once it is due
TimerFires ==
    /\ timers # <<>>
    /\ Head(timers).due <= now
    /\ LET t == Head(timers)
           newEntry == NewEntry(t.command, t.excelData, now)
       IN  commandHistory' = Prepend(newEntry, commandHistory)
    /\ command' = <<>>
    /\ isProcessing' = FALSE
    /\ toasts' = <<ToastCommandDone>>
    /\ timers' = Tail(timers)
    /\ UNCHANGED <<excelData, fileName, isDragging, readers, now>>

\* variant of Close: the busy flag is reset with the rest
CloseResetsBusy ==
    /\ ~excelData.isNull
    /\ excelData' = Null
    /\ fileName' = <<>>
    /\ commandHistory' = <<>>
    /\ isProcessing' = FALSE
    /\ toasts' = <<>>
    /\ UNCHANGED <<command, isDragging, readers, timers, now>>

\* variant of Close: the history is not reset
CloseKeepsHistory ==
    /\ ~excelData.isNull
    /\ excelData' = Null
    /\ fileName' = <<>>
    /\ toasts' = <<>>
    /\ UNCHANGED <<command, commandHistory, isProcessing, isDragging,
                   readers, timers, now>>

\* onClick of the close button
Close ==
    /\ ~excelData.isNull
    /\ excelData' = Null
    /\ fileName' = <<>>
    /\ commandHistory' = <<>>
    /\ toasts' = <<>>
    /\ UNCHANGED <<command, isProcessing, isDragging, readers, timers, now>>

Tick ==
    /\ now + TickMs <= MaxClock
    /\ now' = now + TickMs
    /\ UNCHANGED <<session, isDragging, readers, timers, toasts>>

Next ==
    \/ DragOver
    \/ DragLeave
    \/ \E files \in DropLists : Drop(files)
    \/ \E files \in PickLists : FileSelect(files)
    \/ \E i \in 1..MaxReaders : ReaderOnload(i)
    \/ \E value \in CommandTexts : SetCommand(value)
    \/ KeyDownEnter
    \/ ClickSend
    \/ TimerFires
    \/ Close
    \/ Tick

Spec == Init /\ [][Next]_vars

\* Time passes and a due timer callback is run by the event loop.
FairSpec == Spec /\ WF_vars(Tick) /\ WF_vars(TimerFires)

---------------------------------------------------------------------------
(* Chart projection: getChartData and the Bar/Line series *)

MaxRows == 12        \* data rows of a generated sheet

ChartRows == 10      \* rows.slice(0, 10)

COLORS == <<"#9b87f5", "#0EA5E9", "#F97316", "#10B981", "#EC4899">>

\* Array.prototype.slice(from, to) with 0-based, non-negative bounds
Slice(q, from, to) ==
    LET hi == IF to < Len(q) THEN to ELSE Len(q)
    IN  IF from >= hi THEN <<>> ELSE SubSeq(q, from + 1, hi)

\* variant of TakenRows: the slice starts one row late
TakenRowsOffByOne(rows) == Slice(rows, 1, ChartRows + 1)

\* excelData.rows.slice(0, 10)
TakenRows(rows) == Slice(rows, 0, ChartRows)

\* row[i] with a 0-based i: undefined past the end of the row
At(row, i) == IF i + 1 \in DOMAIN row THEN row[i + 1] ELSE Undefined

\* variant of IsNumber: every present cell is taken
IsPresent(value) == value.t # "undefined"

\* typeof value === 'number'
IsNumber(value) == value.t = "number"

\* a property of an object: its key, whether the key is an array index
\* (such keys are enumerated first, in ascending order), and its value
Prop(key, isIndex, n, val) ==
    [key |-> key, isIndex |-> isIndex, n |-> n, val |-> val]

\* the property key a header value is converted to
PropertyKey(header) ==
    IF header.t = "number" /\ header.n >= 0
    THEN [key |-> ToString(header.n), isIndex |-> TRUE, n |-> header.n]
    ELSE [key |-> CellToString(header), isIndex |-> FALSE, n |-> 0]

\* obj[key] = val on an object kept in Object.keys order
SetProp(obj, k, val) ==
    IF \E p \in 1..Len(obj) : obj[p].key = k.key
    THEN [p \in 1..Len(obj) |->
             IF obj[p].key = k.key THEN [obj[p] EXCEPT !.val = val]
             ELSE obj[p]]
    ELSE IF k.isIndex
    THEN LET pos == Cardinality({p \in 1..Len(obj) :
                                    obj[p].isIndex /\ obj[p].n < k.n})
         IN  SubSeq(obj, 1, pos) \o <<Prop(k.key, TRUE, k.n, val)>>
                \o SubSeq(obj, pos + 1, Len(obj))
    ELSE Append(obj, Prop(k.key, FALSE, 0, val))

\* `Строка ${index + 1}`, in Latin letters
RowLabel(index) == Txt("Stroka " \o ToString(index + 1))

\* the key of the label, and the dataKey of the XAxis
LabelKey == "name"

\* headers.forEach((header, i) => ...) from position i on; an absent
\* header cell is a hole of the array, which forEach skips
RECURSIVE ForEachHeader(_, _, _, _)
ForEachHeader(obj, headers, row, i) ==
    IF i >= Len(headers) THEN obj
    ELSE LET header == headers[i + 1]
             value == At(row, i)
         IN  ForEachHeader(
                 IF header.t # "undefined" /\ IsNumber(value)
                 THEN SetProp(obj, PropertyKey(header), value)
                 ELSE obj,
                 headers, row, i + 1)

\* the callback of rows.slice(0, 10).map
ChartPoint(headers, row, index) ==
    ForEachHeader(<<Prop(LabelKey, FALSE, 0, RowLabel(index))>>,
                  headers, row, 0)

getChartData(data) ==
    IF data.isNull \/ Len(data.rows) = 0 THEN <<>>
    ELSE LET taken == TakenRows(data.rows)
         IN  [p \in 1..Len(taken) |->
                 ChartPoint(data.headers, taken[p], p - 1)]

\* const chartData = getChartData()
chartData == getChartData(excelData)

\* Object.keys(obj).filter(key => key !== 'name')
RECURSIVE SeriesKeys(_)
SeriesKeys(obj) ==
    IF obj = <<>> THEN <<>>
    ELSE IF Head(obj).key # "name"
    THEN <<Head(obj).key>> \o SeriesKeys(Tail(obj))
    ELSE SeriesKeys(Tail(obj))

\* variant of SeriesPoint: the keys are taken from the last point
SeriesPointLast(data) == data[Len(data)]

\* chartData[0], the point the series keys are read from
SeriesPoint(data) == data[1]

\* the <Bar> elements: dataKey and fill of each
BarSeries(data) ==
    IF Len(data) > 0
    THEN LET keys == SeriesKeys(SeriesPoint(data))
         IN  [p \in 1..Len(keys) |->
                 [dataKey |-> keys[p],
                  color |-> COLORS[((p - 1) % Len(COLORS)) + 1]]]
    ELSE <<>>

\* the <Line> elements: dataKey and stroke of each
LineSeries(data) ==
    IF Len(data) > 0
    THEN LET keys == SeriesKeys(SeriesPoint(data))
         IN  [p \in 1..Len(keys) |->
                 [dataKey |-> keys[p],
                  color |-> COLORS[((p - 1) % Len(COLORS)) + 1]]]
    ELSE <<>>

(* Decoded sheets for the projection: header rows with plain, colliding, *)
(* duplicate, numeric, many and absent headers over rows of four kinds.  *)

HeaderRows ==
    { <<Txt("Name"), Txt("Sales")>>,
      <<Txt("name"), Txt("Q1")>>,
      <<Txt("Q1"), Txt("Q1")>>,
      <<Num(2023), Txt("A"), Num(7)>>,
      <<Txt("A"), Txt("B"), Txt("C"), Txt("D"), Txt("E"), Txt("F")>>,
      <<Undefined, Txt("A")>>,
      <<>> }

RowKinds == {"numbers", "late", "mixed", "ragged"}

NumberRow(i, w) == [j \in 1..w |-> Num(10 * i + j)]

SheetRow(kind, i, w) ==
    IF kind = "numbers" THEN NumberRow(i, w)
    ELSE IF kind = "late"
    THEN IF i = 1 THEN [j \in 1..w |-> Txt("x")] ELSE NumberRow(i, w)
    ELSE IF kind = "mixed"
    THEN [j \in 1..w |->
             IF (i + j) % 3 = 0 THEN Num(i)
             ELSE IF (i + j) % 3 = 1 THEN Txt("n/a")
             ELSE Undefined]
    ELSE NumberRow(i, i % (w + 2))

Sheet(headers, kind, n) ==
    <<headers>> \o [i \in 1..n |-> SheetRow(kind, i, Len(headers))]

ChartFiles ==
    {FileA, FileB, FileP} \cup
    { File(<<"s", ".", "x", "l", "s", "x">>, FALSE, Sheet(h, kind, n)) :
        h \in HeaderRows, kind \in RowKinds, n \in 0..MaxRows }

\* a read of one sheet is in flight
ChartInit ==
    /\ excelData = Null
    /\ fileName = <<>>
    /\ isDragging = FALSE
    /\ command = <<>>
    /\ commandHistory = <<>>
    /\ isProcessing = FALSE
    /\ readers \in {<<f>> : f \in ChartFiles}
    /\ timers = <<>>
    /\ toasts = <<>>
    /\ now = 0

ChartNext ==
    \/ \E i \in 1..MaxReaders : ReaderOnload(i)
    \/ Close

ChartSpec == ChartInit /\ [][ChartNext]_vars

---------------------------------------------------------------------------
(* Properties *)

\* this step is the onload of the i-th pending reader
OnloadStep(i) ==
    /\ i \in 1..Len(readers)
    /\ readers' = RemoveAt(readers, i)

\* DecodeFailure: decoding throws, or the decoded input has zero rows
DecodeFailure(file) == file.throws \/ file.jsonData = <<>>

\* C1: single-flight. At most one completion timer is pending in every
\* reachable state, and while the busy flag is set no step (Enter key or
\* button click) starts another command execution.
C1_SingleFlight ==
    /\ [](Len(timers) <= 1)
    /\ [][isProcessing => Len(timers') <= Len(timers)]_vars

\* a command is in flight while the command card is on screen
C1_Witness == isProcessing /\ Len(timers) = 1 /\ ~excelData.isNull

\* C2: empty-phase invariant. Whenever no model is present, the filename
\* is the empty string and the History Log is empty.
C2_EmptyPhase ==
    excelData.isNull => (fileName = <<>> /\ commandHistory = <<>>)

\* C3: closing is one atomic transition. In the state immediately after a
\* step that takes the model from present to absent, the filename is ""
\* and the history is [].
C3_CloseAtomic ==
    [][(~excelData.isNull /\ excelData'.isNull)
         => (fileName' = <<>> /\ commandHistory' = <<>>)]_vars

\* a closed session: only a dataset that was loaded lets text be typed
C3_Witness ==
    /\ excelData.isNull /\ fileName = <<>> /\ commandHistory = <<>>
    /\ command # <<>> /\ now >= TimeoutMs

\* C4: the History Log is cleared whenever a dataset is loaded or
\* replaced. In the state immediately after an onload that installs a
\* model the History Log is empty.
C4_LoadClearsHistory ==
    [][\A i \in 1..Len(readers) :
          (OnloadStep(i) /\ ~DecodeFailure(readers[i]))
             => commandHistory' = <<>>]_vars

\* C5: a model is installed only from the Empty phase. Every onload that
\* installs a model starts in a state without a model.
C5_InstallOnlyFromEmpty ==
    [][\A i \in 1..Len(readers) :
          (OnloadStep(i) /\ ~DecodeFailure(readers[i]))
             => excelData.isNull]_vars

\* C6: history ordering. The log is newest-first: of any two entries the
\* one at the smaller index was completed at the strictly later clock
\* value, so two commands run one after the other are logged second-first.
C6_NewestFirst ==
    \A i, j \in 1..Len(commandHistory) :
        i < j => commandHistory[i].timestamp > commandHistory[j].timestamp

\* command "a" ran to completion, then command " b "
C6_Witness ==
    /\ Len(commandHistory) = 2
    /\ commandHistory[1].command = <<"b">>
    /\ commandHistory[2].command = <<"a">>

\* C7: the history is append-only. Every step leaves the log unchanged,
\* or puts exactly one entry in front of the unchanged old log, or
\* empties the log.
C7_AppendOnly ==
    [][\/ commandHistory' = commandHistory
       \/ /\ Len(commandHistory') = Len(commandHistory) + 1
          /\ Tail(commandHistory') = commandHistory
       \/ commandHistory' = <<>>]_vars

\* a completion has just put an entry in front of a non-empty log
C7_Witness == Len(commandHistory) >= 2 /\ toasts = <<ToastCommandDone>>

\* C8: column-count invariant. Every row of the installed model is as
\* long as the header row.
C8_ColumnCount ==
    ~excelData.isNull =>
        \A i \in 1..Len(excelData.rows) :
            Len(excelData.rows[i]) = Len(excelData.headers)

\* C9: a failed build leaves the session untouched. An onload whose
\* decode throws or yields zero rows changes none of model, filename,
\* History Log, command text and busy flag, and signals no success toast.
C9_FailedBuildUntouched ==
    [][\A i \in 1..Len(readers) :
          (OnloadStep(i) /\ DecodeFailure(readers[i]))
             => /\ session' = session
                /\ \A k \in 1..Len(toasts') : toasts'[k].title # "loaded"]_vars

\* a decode has just failed in the Empty phase
C9_Witness == toasts = <<ToastDecodeError>> /\ excelData.isNull

\* C10: every completed build signals exactly one notification: the
\* confirmation when a model is installed, an error on every
\* DecodeFailure (exception or zero rows).
C10_OneNotification ==
    [][\A i \in 1..Len(readers) :
          OnloadStep(i)
             => IF DecodeFailure(readers[i])
                THEN toasts' = <<ToastDecodeError>>
                ELSE toasts' = <<ToastLoaded(readers[i].name)>>]_vars

\* this step runs the callback of the oldest pending timer
CompletionStep == timers # <<>> /\ timers' = Tail(timers)

\* C11: every accepted command execution eventually completes, also when
\* the dataset is closed meanwhile, and the completion step puts exactly
\* one new entry in front of the History Log, clears the pending command
\* text, releases the busy flag and signals the success notification.
C11_CommandCompletes ==
    /\ (timers # <<>>) ~> (toasts = <<ToastCommandDone>>)
    /\ [][CompletionStep
            => /\ Len(commandHistory') = Len(commandHistory) + 1
               /\ Tail(commandHistory') = commandHistory
               /\ command' = <<>>
               /\ isProcessing' = FALSE
               /\ toasts' = <<ToastCommandDone>>]_vars

\* a command submitted before a close has completed after it
C11_Witness ==
    /\ toasts = <<ToastCommandDone>>
    /\ excelData.isNull
    /\ Len(commandHistory) = 1

\* no name in the list ends in .xlsx or .xls
NoSpreadsheetName(files) ==
    \A k \in 1..Len(files) :
        LET nm == files[k].name
            n == Len(nm)
        IN  /\ ~(n >= 5 /\ SubSeq(nm, n - 4, n) = <<".", "x", "l", "s", "x">>)
            /\ ~(n >= 4 /\ SubSeq(nm, n - 3, n) = <<".", "x", "l", "s">>)

\* the drops made of files without a spreadsheet name only
RejectedDropLists ==
    SeqsUpTo({f \in Files : NoSpreadsheetName(<<f>>)}, MaxDrop)

\* C12: dropping files none of whose names ends in .xlsx or .xls signals
\* the error notification, starts no decode and leaves model, filename,
\* History Log, command text and busy flag as they were.
C12_RejectedDrop ==
    [][\A files \in RejectedDropLists :
          (NoSpreadsheetName(files) /\ Drop(files))
             => /\ toasts' = <<ToastNotExcel>>
                /\ readers' = readers
                /\ session' = session]_vars

\* a drop has just been rejected while another read was in flight
C12_Witness == toasts = <<ToastNotExcel>> /\ readers # <<>>

\* C13: a decode is only ever started for a file whose name ends in
\* .xlsx or .xls, through the drop zone and through the file picker.
C13_OnlySpreadsheetsDecoded ==
    \A k \in 1..Len(readers) : ~NoSpreadsheetName(<<readers[k]>>)

\* C16: the entry produced by a completion carries the trimmed command
\* text, and its result reports the number of data rows and the
\* comma-joined headers of the model the command was submitted against;
\* for the 2-row model with headers Name, Sales these are "2" and
\* "Name, Sales".
C16_EntryReportsModel ==
    [][CompletionStep =>
         LET t == Head(timers)
             entry == commandHistory'[1]
             parts == {entry.result[k] : k \in 1..Len(entry.result)}
         IN  /\ entry.command # <<>>
             /\ Head(entry.command) # " "
             /\ entry.command[Len(entry.command)] # " "
             /\ \E a, b \in 0..Len(t.command) :
                   /\ a + b + Len(entry.command) = Len(t.command)
                   /\ entry.command
                        = SubSeq(t.command, a + 1, Len(t.command) - b)
             /\ ToString(Len(t.excelData.rows)) \in parts
             /\ (t.excelData.headers = <<Txt("Name"), Txt("Sales")>>
                   => "Name, Sales" \in parts)
             /\ (t.excelData.headers = <<Txt("name"), Txt("Q1")>>
                   => "name, Q1" \in parts)
             /\ ((t.excelData.headers = <<Txt("Name"), Txt("Sales")>>
                    /\ Len(t.excelData.rows) = 2)
                   => "2" \in parts)]_vars

\* " b " was run against the Name/Sales model and is logged as "b"
C16_Witness ==
    /\ commandHistory # <<>>
    /\ commandHistory[1].command = <<"b">>
    /\ commandHistory[1].result[4] = "2"
    /\ commandHistory[1].result[6] = "Name, Sales"

\* C19: entry ids are unique. All entries of the History Log have
\* pairwise distinct ids.
C19_UniqueIds ==
    \A i, j \in 1..Len(commandHistory) :
        i # j => commandHistory[i].id # commandHistory[j].id

\* two entries completed one timeout apart
C19_Witness ==
    /\ Len(commandHistory) = 2
    /\ commandHistory[1].id = ToString(2 * TimeoutMs)
    /\ commandHistory[2].id = ToString(TimeoutMs)

\* C20: the busy flag mirrors the in-flight command. isProcessing is
\* true exactly when a completion is pending, across closes and loads.
C20_BusyMirrorsTimer == isProcessing <=> (timers # <<>>)

\* a command is still in flight after a close and the load of another file
C20_Witness ==
    /\ isProcessing
    /\ timers # <<>>
    /\ ~excelData.isNull
    /\ Head(timers).excelData # excelData

\* the values of the cells of a row
CellsOf(row) == {row[j] : j \in 1..Len(row)}

\* the properties of a point other than its label
SeriesProps(point) ==
    {point[p] : p \in {q \in 1..Len(point) : point[q].key # "name"}}

\* C14: the projection has one point per taken row, in source order, and
\* min(10, rows.length) points; zero rows or no model give no point.
C14_ProjectionLength ==
    LET n == IF excelData.isNull THEN 0 ELSE Len(excelData.rows)
    IN  /\ Len(chartData) = IF n < 10 THEN n ELSE 10
        /\ \A k \in 1..Len(chartData) :
              \A prop \in SeriesProps(chartData[k]) :
                  prop.val \in CellsOf(excelData.rows[k])

\* a model of more than ten rows is projected to ten points
C14_Witness ==
    /\ ~excelData.isNull
    /\ Len(excelData.rows) > 10
    /\ Len(chartData) = 10
    /\ Len(chartData[10]) > 1

\* C15: a point holds headers[j] -> row[j] only if row[j] is a number:
\* every series value of a point is a number standing in the row under a
\* header of that name, and nothing stands in for a non-numeric or
\* absent cell.
C15_NumericOnly ==
    \A k \in 1..Len(chartData) :
        LET row == excelData.rows[k]
            headers == excelData.headers
        IN  /\ \A prop \in SeriesProps(chartData[k]) :
                  /\ prop.val.t = "number"
                  /\ \E j \in 1..Len(headers) :
                        /\ j <= Len(row)
                        /\ row[j] = prop.val
                        /\ prop.key = CellToString(headers[j])
            /\ \A p \in 1..Len(chartData[k]) :
                  chartData[k][p].key = "name"
                     => \/ chartData[k][p].val.t = "number"
                        \/ chartData[k][p].val = Txt("Stroka " \o ToString(k))

\* the Name/Sales sheet: "Alice" and both cells of Bob's row are left out
C15_Witness ==
    /\ excelData = ExcelData(FileA.jsonData[1], Tail(FileA.jsonData))
    /\ Len(chartData) = 2
    /\ Len(chartData[1]) = 2
    /\ chartData[1][2].key = "Sales"
    /\ chartData[1][2].val = Num(10)
    /\ Len(chartData[2]) = 1

\* the keys of a point other than the label key, in the point's order
RECURSIVE NonLabelKeys(_, _)
NonLabelKeys(point, p) ==
    IF p > Len(point) THEN <<>>
    ELSE (IF point[p].key = "name" THEN <<>> ELSE <<point[p].key>>)
            \o NonLabelKeys(point, p + 1)

SeriesAsClaimed(series) ==
    LET keys == NonLabelKeys(chartData[1], 1)
        row == excelData.rows[1]
        headers == excelData.headers
    IN  /\ Len(series) = Len(keys)
        /\ \A i \in 0..(Len(keys) - 1) :
              /\ series[i + 1].dataKey = keys[i + 1]
              /\ series[i + 1].color = COLORS[(i % 5) + 1]
        /\ (\A j \in 1..Len(headers) :
               j > Len(row) \/ row[j].t # "number")
              => series = <<>>

\* C17: the Bar and Line series are the non-label keys of the first
\* point, in its key order, the key at index i coloured COLORS[i mod 5];
\* a first row without a number gives no series, whatever follows.
C17_SeriesFromFirstPoint ==
    IF chartData = <<>>
    THEN BarSeries(chartData) = <<>> /\ LineSeries(chartData) = <<>>
    ELSE /\ SeriesAsClaimed(BarSeries(chartData))
         /\ SeriesAsClaimed(LineSeries(chartData))

\* the first row has no number, a later row has, and nothing is drawn
C17_Witness ==
    /\ Len(chartData) >= 2
    /\ Len(chartData[1]) = 1
    /\ Len(chartData[2]) > 1
    /\ BarSeries(chartData) = <<>>
    /\ LineSeries(chartData) = <<>>

\* C18: the point of the taken row at 0-based index i carries the row
\* label of i+1 under the label key, whatever the headers are.
C18_RowLabel ==
    \A k \in 1..Len(chartData) :
        \E p \in 1..Len(chartData[k]) :
            /\ chartData[k][p].key = "name"
            /\ chartData[k][p].val = Txt("Stroka " \o ToString(k))

=============================================================================
